---- MODULE Spec2Model ----
(***************************************************************************)
(* A model of the segmented downloader of src/src/downloader.py: the       *)
(* Downloader object, its worker threads (one per file part), the files    *)
(* it keeps on disk (the part files, the merged file, state.xml) and the   *)
(* caller, who may call download(), reinstate() and interrupt() and may    *)
(* construct a new Downloader over what an earlier one left on disk.       *)
(*                                                                         *)
(* The remote resource is fileSize bytes long; the byte at offset i is     *)
(* modelled by the number i, so that a file is the sequence of the offsets *)
(* written to it.  A range request is answered with the bytes of the range *)
(* that the resource has; a progress callback follows every write.         *)
(***************************************************************************)
EXTENDS Integers, Sequences, FiniteSets, TLC

\* ---------------------------------------------------------------- bounds
MaxParts == 2
MaxNeg == 1
MaxSize == 5
MaxAttempts == 2
MaxWrites == 2
PlanMaxParts == 4
PlanMaxSize == 12

PartIds == 1..MaxParts

\* The smallest resource: two bytes for each part.
MinSize == 2 * MaxParts

\* ------------------------------------------------------------ pure helpers
Min(a, b) == IF a < b THEN a ELSE b
Max(a, b) == IF a > b THEN a ELSE b

\* A path with no file; a file that exists is the sequence of its bytes.
NoFile == <<-1>>
Empty == [x \in {} |-> 0]
Put(f, k, v) == [x \in (DOMAIN f) \cup {k} |-> IF x = k THEN v ELSE f[x]]

\* Python's round() of the quotient s / n: half-way cases go to the even
\* neighbour; the quotient by a negative n is the negated quotient by -n.
RoundDivPos(s, n) ==
    LET q == s \div n
        r == s % n
    IN  IF 2 * r < n THEN q
        ELSE IF 2 * r > n THEN q + 1
        ELSE IF q % 2 = 0 THEN q ELSE q + 1

RoundDiv(s, n) == IF n > 0 THEN RoundDivPos(s, n) ELSE 0 - RoundDivPos(s, 0 - n)

\* str() of an integer, as a sequence of characters.
DigitChars == <<"0", "1", "2", "3", "4", "5", "6", "7", "8", "9">>
IsDigit(c) == \E i \in 1..10 : DigitChars[i] = c
DigitVal(c) == (CHOOSE i \in 1..10 : DigitChars[i] = c) - 1

RECURSIVE Str(_)
Str(n) ==
    IF n < 0 THEN <<"-">> \o Str(0 - n)
    ELSE IF n < 10 THEN <<DigitChars[n + 1]>>
    ELSE Str(n \div 10) \o <<DigitChars[(n % 10) + 1]>>

\* int() of a string of digits.
RECURSIVE ToInt(_)
ToInt(s) ==
    IF Len(s) = 0 THEN 0
    ELSE 10 * ToInt(SubSeq(s, 1, Len(s) - 1)) + DigitVal(s[Len(s)])

\* f"{start}-{end}" of two strings.
RangeText(startStr, endStr) == startStr \o <<"-">> \o endStr

\* re.search(r"^\d+", text): the longest run of digits the text starts with;
\* the empty sequence stands for no match.
RECURSIVE LeadingDigits(_)
LeadingDigits(t) ==
    IF Len(t) = 0 \/ ~IsDigit(t[1]) THEN <<>>
    ELSE <<t[1]>> \o LeadingDigits(Tail(t))

\* re.search(r"\d+$", text): the longest run of digits the text ends with.
RECURSIVE TrailingDigits(_)
TrailingDigits(t) ==
    IF Len(t) = 0 \/ ~IsDigit(t[Len(t)]) THEN <<>>
    ELSE TrailingDigits(SubSeq(t, 1, Len(t) - 1)) \o <<t[Len(t)]>>

\* The offsets a..b, in order: the bytes of the resource from a to b.
RECURSIVE Bytes(_, _)
Bytes(a, b) == IF a > b THEN <<>> ELSE <<a>> \o Bytes(a + 1, b)

\* ------------------------------------------------------------------ state
VARIABLES
    nparts,        \* the parts argument the Downloader is constructed with
    fileSize,      \* the length of the resource, as _getSize() reports it
    parts,         \* self.parts: the counter of parts not yet saved
    partSize,      \* self.partSize
    partPosition,  \* self.partPosition: part -> currentDown of its last callback
    partState,     \* self.partState: part -> "complete" | "incomplete"
    lastPosition,  \* self.lastPosition: part -> offset the attempt started from
    stop,          \* self.stop
    resume,        \* self.resume
    root,          \* self.root: this file's entry of state.xml as parsed by __init__
    stateXml,      \* state.xml on disk: this file's entry, part -> [state, text]
    otherXml,      \* state.xml on disk: whether it holds entries of other files
    partFile,      \* the part files on disk: part -> NoFile or the bytes
    artifact,      \* the merged file on disk: NoFile or the bytes
    pc,            \* where the caller's thread is
    err,           \* the exception that left the caller's thread, or "none"
    dlParts,       \* download()'s local parts
    partStart,     \* download()'s local partStart (new download)
    partEnd,       \* download()'s local partEnd (new download)
    loopPart,      \* download()'s and _mergeFiles()'s loop variable part
    todo,          \* the parts _getXMLData() has still to yield
    mtmp,          \* self.parts as read by download()'s self.parts += 1
    wpc,           \* part -> where its worker thread is
    wrange,        \* part -> the range its worker requests (curl.RANGE)
    wpos,          \* part -> bytes the worker's transfer has received
    wtmp,          \* part -> self.parts as read by _save()'s self.parts -= 1
    wstate,        \* part -> the state argument of the worker's call of _save()
    wfrom,         \* part -> "cb" | "exc": who called _save()
    attempt,       \* calls of download() so far
    resumed,       \* whether the current download() runs as a resume
    writes,        \* writes of state.xml by the current download(), up to MaxWrites
    intr,          \* whether interrupt() came while a worker was transferring
    stopped,       \* whether the stop flag was set when download() was called
    mergeRan,      \* whether the current download() has called _mergeFiles()
    preMerge       \* the part files as they were when _mergeFiles() began

object == <<parts, partSize, partPosition, partState, lastPosition, stop, resume, root>>
disk == <<stateXml, otherXml, partFile, artifact>>
caller == <<pc, err, dlParts, partStart, partEnd, loopPart, todo, mtmp>>
workers == <<wpc, wrange, wpos, wtmp, wstate, wfrom>>
history == <<attempt, resumed, writes, intr, stopped, mergeRan, preMerge>>
vars == <<nparts, fileSize, object, disk, caller, workers, history>>

\* The worker of a part is inside curl.perform().
InPerform(k) == wpc[k] \in {"xfer", "save", "check"}
Running(k) == wpc[k] \notin {"none", "dead"}

\* ---------------------------------------------------------- __init__
\* What the planned ranges need of the resource: every part's first byte exists.
Satisfiable(n, size) ==
    n > 1 => (n - 1) * RoundDiv(size, n) + 1 <= size - 1

\* self.partSize = round(fileSize / self.parts); with parts = 0 the division
\* raises and no field after it is set.
PartSizeOf(size, n) == IF n = 0 THEN 0 ELSE RoundDiv(size, n)

\* The fields __init__ sets.
Construct(n, size, xml) ==
    /\ parts' = n
    /\ partSize' = PartSizeOf(size, n)
    /\ partPosition' = Empty
    /\ partState' = Empty
    /\ lastPosition' = Empty
    /\ stop' = FALSE
    /\ resume' = FALSE
    /\ root' = xml
    /\ pc' = IF n = 0 THEN "raised" ELSE "idle"
    /\ err' = IF n = 0 THEN "ZeroDivisionError" ELSE "none"

Init ==
    /\ nparts \in (0 - MaxNeg)..MaxParts
    /\ fileSize \in MinSize..MaxSize
    /\ Satisfiable(nparts, fileSize)
    /\ parts = nparts
    /\ partSize = PartSizeOf(fileSize, nparts)
    /\ partPosition = Empty
    /\ partState = Empty
    /\ lastPosition = Empty
    /\ stop = FALSE
    /\ resume = FALSE
    /\ root = Empty
    /\ stateXml = Empty
    /\ otherXml = TRUE
    /\ partFile = [k \in PartIds |-> NoFile]
    /\ artifact = NoFile
    /\ pc = IF nparts = 0 THEN "raised" ELSE "idle"
    /\ err = IF nparts = 0 THEN "ZeroDivisionError" ELSE "none"
    /\ dlParts = 0
    /\ partStart = 0
    /\ partEnd = 0
    /\ loopPart = 0
    /\ todo = {}
    /\ mtmp = 0
    /\ wpc = [k \in PartIds |-> "none"]
    /\ wrange = [k \in PartIds |-> <<>>]
    /\ wpos = [k \in PartIds |-> 0]
    /\ wtmp = [k \in PartIds |-> 0]
    /\ wstate = [k \in PartIds |-> "none"]
    /\ wfrom = [k \in PartIds |-> "none"]
    /\ attempt = 0
    /\ resumed = FALSE
    /\ writes = 0
    /\ intr = FALSE
    /\ stopped = FALSE
    /\ mergeRan = FALSE
    /\ preMerge = [k \in PartIds |-> NoFile]

\* ------------------------------------------------------- _getXMLData
\* (mutant: the state attribute is not tested)
GetXMLDataAnyState(xml) == DOMAIN xml

\* The parts of this file's entry whose state is "incomplete".
GetXMLData(xml) == {k \in DOMAIN xml : xml[k].state = "incomplete"}

\* ------------------------------------------------------- _setXMLData
\* The start of a part's range as _setXMLData() computes it.
SavedStart(k) ==
    partPosition[k] + lastPosition[k]
    + (IF ~resume THEN partSize * (k - 1) + (IF k # 1 THEN 1 ELSE 0) ELSE 0)
    - (IF partState[k] = "complete" THEN 1 ELSE 0)

SavedEntry(k) ==
    [state |-> partState[k],
     text |-> RangeText(Str(SavedStart(k)), Str(partSize * k))]

\* The <file> element _setXMLData() builds: one <part> per key of partPosition.
SetXMLData == [k \in DOMAIN partPosition |-> SavedEntry(k)]

\* _setXMLData() raises KeyError when a key of partPosition is missing from
\* partState or lastPosition.
SetXMLDataRaises ==
    \E k \in DOMAIN partPosition :
        k \notin DOMAIN partState \/ k \notin DOMAIN lastPosition

\* ------------------------------------------------ the caller's thread
NoWorkerRuns == \A k \in PartIds : ~Running(k)

\* download() up to its loops: the locals, and the choice of the loop.
BeginDownload(res) ==
    /\ pc \in {"idle", "done", "raised"}
    /\ err # "ZeroDivisionError"
    /\ NoWorkerRuns
    /\ attempt < MaxAttempts
    /\ resume' = res
    /\ dlParts' = parts
    /\ partStart' = 0
    /\ partEnd' = partSize
    /\ loopPart' = 1
    /\ mtmp' = 0
    /\ err' = "none"
    /\ IF ~res
       THEN /\ parts' = parts
            /\ todo' = {}
            /\ pc' = IF parts >= 1 THEN "spawn" ELSE "join"
       ELSE /\ parts' = 0
            /\ todo' = GetXMLData(root)
            /\ pc' = IF GetXMLData(root) = {} THEN "join" ELSE "respawn"
    /\ wpc' = [k \in DOMAIN wpc |-> "none"]
    /\ wrange' = [k \in DOMAIN wpc |-> <<>>]
    /\ wpos' = [k \in DOMAIN wpc |-> 0]
    /\ wtmp' = [k \in DOMAIN wpc |-> 0]
    /\ wstate' = [k \in DOMAIN wpc |-> "none"]
    /\ wfrom' = [k \in DOMAIN wpc |-> "none"]
    /\ attempt' = attempt + 1
    /\ resumed' = res
    /\ writes' = 0
    /\ intr' = FALSE
    /\ stopped' = stop
    /\ mergeRan' = FALSE
    /\ preMerge' = [k \in DOMAIN wpc |-> NoFile]
    /\ UNCHANGED <<nparts, fileSize, partSize, partPosition, partState,
                   lastPosition, stop, root, disk>>

\* download() called by the user.
Download == BeginDownload(resume)

\* reinstate(): sets the resume flag and calls download().
Reinstate == BeginDownload(TRUE)

\* A new Downloader for the same URL and parts, over what is on disk.
NewDownloader ==
    /\ pc \in {"done", "raised"}
    /\ NoWorkerRuns
    /\ attempt < MaxAttempts
    /\ Construct(nparts, fileSize, stateXml)
    /\ dlParts' = 0
    /\ partStart' = 0
    /\ partEnd' = 0
    /\ loopPart' = 0
    /\ todo' = {}
    /\ mtmp' = 0
    /\ wpc' = [k \in PartIds |-> "none"]
    /\ wrange' = [k \in PartIds |-> <<>>]
    /\ wpos' = [k \in PartIds |-> 0]
    /\ wtmp' = [k \in PartIds |-> 0]
    /\ wstate' = [k \in PartIds |-> "none"]
    /\ wfrom' = [k \in PartIds |-> "none"]
    /\ resumed' = FALSE
    /\ writes' = 0
    /\ intr' = FALSE
    /\ stopped' = FALSE
    /\ mergeRan' = FALSE
    /\ preMerge' = [k \in PartIds |-> NoFile]
    /\ UNCHANGED <<nparts, fileSize, disk, attempt>>

\* interrupt(), from outside, at any time.
Interrupt ==
    /\ err # "ZeroDivisionError"
    /\ ~stop
    /\ stop' = TRUE
    /\ intr' = (intr \/ \E k \in PartIds : InPerform(k))
    /\ UNCHANGED <<nparts, fileSize, parts, partSize, partPosition, partState,
                   lastPosition, resume, root, disk, caller, workers,
                   attempt, resumed, writes, stopped, mergeRan, preMerge>>

\* The new download's loop: threading.Thread(...).start() for part loopPart.
SpawnStart ==
    /\ pc = "spawn"
    /\ wpc' = [wpc EXCEPT ![loopPart] = "open"]
    /\ wrange' = [wrange EXCEPT ![loopPart] = RangeText(Str(partStart), Str(partEnd))]
    /\ pc' = "spawned"
    /\ UNCHANGED <<nparts, fileSize, object, disk, err, dlParts, partStart,
                   partEnd, loopPart, todo, mtmp, wpos, wtmp, wstate, wfrom,
                   history>>

\* The rest of the loop's body: the next range, and lastPosition[part] = 0.
SpawnNext ==
    /\ pc = "spawned"
    /\ partStart' = partStart + (IF loopPart = 1 THEN partSize + 1 ELSE partSize)
    /\ partEnd' = partEnd + partSize
    /\ lastPosition' = Put(lastPosition, loopPart, 0)
    /\ loopPart' = loopPart + 1
    /\ pc' = IF loopPart + 1 > dlParts THEN "join" ELSE "spawn"
    /\ UNCHANGED <<nparts, fileSize, parts, partSize, partPosition, partState,
                   stop, resume, root, disk, err, dlParts, todo, mtmp,
                   workers, history>>

\* The resume's loop: _getXMLData() yields a part; self.parts += 1 reads self.parts.
ResumeNext ==
    /\ pc = "respawn"
    /\ \E k \in todo :
        /\ loopPart' = k
        /\ todo' = todo \ {k}
    /\ mtmp' = parts
    /\ pc' = "recount"
    /\ UNCHANGED <<nparts, fileSize, object, disk, err, dlParts, partStart,
                   partEnd, workers, history>>

\* The rest of the loop's body: self.parts is written, the range is read from
\* the part's text, lastPosition is set and the thread is started.
ResumeStart ==
    /\ pc = "recount"
    /\ parts' = mtmp + 1
    /\ LET text == root[loopPart].text
           first == LeadingDigits(text)
           last == TrailingDigits(text)
       IN  IF first = <<>> \/ last = <<>>
           THEN /\ pc' = "raised"
                /\ err' = "AttributeError"
                /\ UNCHANGED <<lastPosition, wpc, wrange>>
           ELSE /\ pc' = IF todo = {} THEN "join" ELSE "respawn"
                /\ err' = err
                /\ lastPosition' = Put(lastPosition, loopPart, ToInt(first))
                /\ wpc' = [wpc EXCEPT ![loopPart] = "open"]
                /\ wrange' = [wrange EXCEPT ![loopPart] = RangeText(first, last)]
    /\ UNCHANGED <<nparts, fileSize, partSize, partPosition, partState, stop,
                   resume, root, disk, dlParts, partStart, partEnd, loopPart,
                   todo, mtmp, wpos, wtmp, wstate, wfrom, history>>

\* (mutant: the merge does not depend on the stop flag)
JoinIgnoringStop ==
    /\ pc = "join"
    /\ NoWorkerRuns
    /\ artifact' = <<>>
    /\ loopPart' = 1
    /\ mergeRan' = TRUE
    /\ preMerge' = partFile
    /\ pc' = IF dlParts >= 1 THEN "merge" ELSE "done"
    /\ UNCHANGED <<nparts, fileSize, object, stateXml, otherXml, partFile, err,
                   dlParts, partStart, partEnd, todo, mtmp, workers, attempt,
                   resumed, writes, intr, stopped>>

\* The joins are over, self.stop is read; if it is not set _mergeFiles() opens
\* the merged file for writing.
Join ==
    /\ pc = "join"
    /\ NoWorkerRuns
    /\ IF stop
       THEN /\ pc' = "done"
            /\ UNCHANGED <<artifact, loopPart, mergeRan, preMerge>>
       ELSE /\ artifact' = <<>>
            /\ loopPart' = 1
            /\ mergeRan' = TRUE
            /\ preMerge' = partFile
            /\ pc' = IF dlParts >= 1 THEN "merge" ELSE "done"
    /\ UNCHANGED <<nparts, fileSize, object, stateXml, otherXml, partFile, err,
                   dlParts, partStart, partEnd, todo, mtmp, workers, attempt,
                   resumed, writes, intr, stopped>>

\* One round of _mergeFiles()' loop: the part file is read, written to the
\* merged file and removed; a part file that is missing raises.
MergeFiles ==
    /\ pc = "merge"
    /\ IF partFile[loopPart] = NoFile
       THEN /\ pc' = "raised"
            /\ err' = "FileNotFoundError"
            /\ UNCHANGED <<artifact, partFile, loopPart>>
       ELSE /\ artifact' = artifact \o partFile[loopPart]
            /\ partFile' = [partFile EXCEPT ![loopPart] = NoFile]
            /\ loopPart' = loopPart + 1
            /\ pc' = IF loopPart + 1 > dlParts THEN "done" ELSE "merge"
            /\ err' = err
    /\ UNCHANGED <<nparts, fileSize, object, stateXml, otherXml, dlParts,
                   partStart, partEnd, todo, mtmp, workers, history>>

\* ------------------------------------------------- the worker threads
\* The first and the last byte the worker's curl.RANGE asks for.
RangeFirst(k) == ToInt(LeadingDigits(wrange[k]))
RangeLast(k) == ToInt(TrailingDigits(wrange[k]))

\* totalDown: the bytes of the requested range that the resource has.
TotalDown(k) == Max(0, Min(RangeLast(k), fileSize - 1) - RangeFirst(k) + 1)

\* _downloadRange() up to perform(): the part file is opened, for appending if
\* it exists, else created.
OpenPart(k) ==
    /\ wpc[k] = "open"
    /\ partFile' = [partFile EXCEPT ![k] = IF @ = NoFile THEN <<>> ELSE @]
    /\ wpos' = [wpos EXCEPT ![k] = 0]
    /\ wpc' = [wpc EXCEPT ![k] = "xfer"]
    /\ UNCHANGED <<nparts, fileSize, object, stateXml, otherXml, artifact,
                   caller, wrange, wtmp, wstate, wfrom, history>>

\* _save() up to the write of self.parts: the test of partState's keys and the
\* read of self.parts; from is who called ("cb": _trackProgress(), "exc": the
\* except clause of _downloadRange()).
EnterSave(k, state, from) ==
    /\ wfrom' = [wfrom EXCEPT ![k] = from]
    /\ IF k \notin DOMAIN partState
       THEN /\ wtmp' = [wtmp EXCEPT ![k] = parts]
            /\ wstate' = [wstate EXCEPT ![k] = state]
            /\ wpc' = [wpc EXCEPT ![k] = "save"]
       ELSE /\ wpc' = [wpc EXCEPT ![k] = "check"]
            /\ UNCHANGED <<wtmp, wstate>>

\* The thread of part k ends; its locals and its curl handle are gone.
EndThread(k) ==
    /\ wpc' = [wpc EXCEPT ![k] = "dead"]
    /\ wpos' = [wpos EXCEPT ![k] = 0]
    /\ wtmp' = [wtmp EXCEPT ![k] = 0]
    /\ wstate' = [wstate EXCEPT ![k] = "none"]
    /\ wfrom' = [wfrom EXCEPT ![k] = "none"]

\* _trackProgress() returns 1: perform() raises pycurl.error, and the except
\* clause of _downloadRange() calls _save(k, "incomplete").
Abort(k) == EnterSave(k, "incomplete", "exc")

\* A progress callback, after the transfer has received the bytes up to
\* currentDown: _trackProgress() up to its call of _save() or, without one, to
\* its end.
TrackProgress(k, currentDown) ==
    /\ wpc[k] = "xfer"
    /\ currentDown >= wpos[k]
    /\ currentDown <= TotalDown(k)
    /\ partFile' = [partFile EXCEPT ![k] =
           @ \o Bytes(RangeFirst(k) + wpos[k], RangeFirst(k) + currentDown - 1)]
    /\ wpos' = [wpos EXCEPT ![k] = currentDown]
    /\ partPosition' = Put(partPosition, k, currentDown)
    /\ IF currentDown # 0 /\ currentDown = TotalDown(k)
       THEN EnterSave(k, "complete", "cb")
       ELSE IF stop
            THEN Abort(k)
            ELSE UNCHANGED <<wpc, wtmp, wstate, wfrom>>
    /\ UNCHANGED <<nparts, fileSize, parts, partSize, partState, lastPosition,
                   stop, resume, root, stateXml, otherXml, artifact, caller,
                   wrange, history>>

\* The transfer fails: perform() raises pycurl.error; the except clause of
\* _downloadRange() calls _save(k, "incomplete").
TransferError(k) ==
    /\ wpc[k] = "xfer"
    /\ wpos[k] < TotalDown(k) \/ TotalDown(k) = 0
    /\ EnterSave(k, "incomplete", "exc")
    /\ UNCHANGED <<nparts, fileSize, object, disk, caller, wrange, wpos, history>>

\* perform() returns: every byte of the range has arrived.
TransferDone(k) ==
    /\ wpc[k] = "xfer"
    /\ wpos[k] = TotalDown(k)
    /\ EndThread(k)
    /\ UNCHANGED <<nparts, fileSize, object, disk, caller, wrange, history>>

\* (mutant: the state is recorded for every part, not for the part saved)
SaveCountAllParts(k) ==
    /\ wpc[k] = "save"
    /\ parts' = wtmp[k] - 1
    /\ partState' = [j \in 1..nparts |-> wstate[k]]
    /\ wpc' = [wpc EXCEPT ![k] = "check"]
    /\ UNCHANGED <<nparts, fileSize, partSize, partPosition, lastPosition, stop,
                   resume, root, disk, caller, wrange, wpos, wtmp, wstate,
                   wfrom, history>>

\* _save(): self.parts -= 1 writes self.parts, and the state is recorded.
SaveCount(k) ==
    /\ wpc[k] = "save"
    /\ parts' = wtmp[k] - 1
    /\ partState' = Put(partState, k, wstate[k])
    /\ wpc' = [wpc EXCEPT ![k] = "check"]
    /\ UNCHANGED <<nparts, fileSize, partSize, partPosition, lastPosition, stop,
                   resume, root, disk, caller, wrange, wpos, wtmp, wstate,
                   wfrom, history>>

\* The write of state.xml: the whole document is replaced by this file's
\* entry; with the stop flag set _setXMLData() clears the resume flag.
WriteState ==
    /\ stateXml' = SetXMLData
    /\ otherXml' = FALSE
    /\ resume' = IF stop THEN FALSE ELSE resume
    /\ writes' = Min(writes + 1, MaxWrites)

\* After _save(): _trackProgress() reads the stop flag and returns; the except
\* clause ends the thread.  abort: the callback has raised, which aborts the
\* transfer as returning 1 does.
AfterSave(k, abort) ==
    IF wfrom[k] = "cb"
    THEN IF stop \/ abort
         THEN Abort(k) /\ UNCHANGED wpos
         ELSE /\ wpc' = [wpc EXCEPT ![k] = "xfer"]
              /\ UNCHANGED <<wpos, wtmp, wstate, wfrom>>
    ELSE EndThread(k)

\* _save() from "if not self.parts" on, and then the rest of its caller.
SaveFlush(k) ==
    /\ wpc[k] = "check"
    /\ IF parts = 0
       THEN IF SetXMLDataRaises
            THEN /\ AfterSave(k, TRUE)
                 /\ UNCHANGED <<stateXml, otherXml, resume, writes>>
            ELSE /\ WriteState
                 /\ AfterSave(k, FALSE)
       ELSE /\ AfterSave(k, FALSE)
            /\ UNCHANGED <<stateXml, otherXml, resume, writes>>
    /\ UNCHANGED <<nparts, fileSize, parts, partSize, partPosition, partState,
                   lastPosition, stop, root, partFile, artifact, caller,
                   wrange, attempt, resumed, intr, stopped, mergeRan, preMerge>>

\* ------------------------------------------------------ specification
Worker(k) ==
    \/ OpenPart(k)
    \/ \E currentDown \in 0..(MaxSize + 1) : TrackProgress(k, currentDown)
    \/ TransferError(k)
    \/ TransferDone(k)
    \/ SaveCount(k)
    \/ SaveFlush(k)

Next ==
    \/ Download
    \/ Reinstate
    \/ NewDownloader
    \/ Interrupt
    \/ SpawnStart
    \/ SpawnNext
    \/ ResumeNext
    \/ ResumeStart
    \/ Join
    \/ MergeFiles
    \/ \E k \in PartIds : Worker(k)

Spec == Init /\ [][Next]_vars

\* ------------------------------------------- the plan of a new download
\* __init__ and then download() up to the end of its loop, for up to
\* PlanMaxParts parts of a resource of up to PlanMaxSize bytes; the threads the
\* loop starts do not get to run.
PlanInit ==
    /\ nparts \in 1..PlanMaxParts
    /\ fileSize \in PlanMaxParts..PlanMaxSize
    /\ parts = nparts
    /\ partSize = PartSizeOf(fileSize, nparts)
    /\ partPosition = Empty
    /\ partState = Empty
    /\ lastPosition = Empty
    /\ stop = FALSE
    /\ resume = FALSE
    /\ root = Empty
    /\ stateXml = Empty
    /\ otherXml = TRUE
    /\ partFile = [k \in 1..PlanMaxParts |-> NoFile]
    /\ artifact = NoFile
    /\ pc = "idle"
    /\ err = "none"
    /\ dlParts = 0
    /\ partStart = 0
    /\ partEnd = 0
    /\ loopPart = 0
    /\ todo = {}
    /\ mtmp = 0
    /\ wpc = [k \in 1..PlanMaxParts |-> "none"]
    /\ wrange = [k \in 1..PlanMaxParts |-> <<>>]
    /\ wpos = [k \in 1..PlanMaxParts |-> 0]
    /\ wtmp = [k \in 1..PlanMaxParts |-> 0]
    /\ wstate = [k \in 1..PlanMaxParts |-> "none"]
    /\ wfrom = [k \in 1..PlanMaxParts |-> "none"]
    /\ attempt = 0
    /\ resumed = FALSE
    /\ writes = 0
    /\ intr = FALSE
    /\ stopped = FALSE
    /\ mergeRan = FALSE
    /\ preMerge = [k \in 1..PlanMaxParts |-> NoFile]

PlanNext ==
    \/ Download
    \/ SpawnStart
    \/ SpawnNext

PlanSpec == PlanInit /\ [][PlanNext]_vars

\* ------------------------------------------------------------- claims
\* The parts the current download() has started a worker for.
Started == {k \in PartIds : wpc[k] # "none"}

\* download() is past its joins.
Joined == pc \in {"merge", "done"} \/ (pc = "raised" /\ err = "FileNotFoundError")

\* Every part of the attempt has been saved as complete.
AllComplete ==
    \A k \in Started : k \in DOMAIN partState /\ partState[k] = "complete"

\* C1: download() merges if and only if every part of the attempt ended
\* complete and no stop was requested: once the joins are over, a merge has run
\* only if all parts are complete, and it has run if they are and the stop
\* flag is not set.
C1_MergeIffAllComplete ==
    (Joined /\ attempt >= 1 /\ nparts >= 1) =>
        /\ mergeRan => AllComplete
        /\ (AllComplete /\ ~stop) => mergeRan

\* The parts the record the Downloader was constructed over lists with a state.
Recorded(state) == {k \in DOMAIN root : root[k].state = state}

C2_StartedAreRecorded ==
    (resumed /\ attempt >= 1) =>
        /\ Started \subseteq Recorded("incomplete")
        /\ \A k \in Started : wrange[k] = root[k].text
        /\ pc \in {"join", "merge", "done"} => Started = Recorded("incomplete")

C2_CompleteUntouched ==
    (resumed /\ pc \in {"respawn", "recount", "join"}) =>
        \A k \in PartIds \ Recorded("incomplete") : partFile'[k] = partFile[k]

\* C2: a resumed download() starts a worker for exactly the parts the record
\* lists as incomplete, each with the range of its text; the part file of any
\* other part is not written while the workers run.
C2_ResumeStartsIncompleteOnly ==
    [](C2_StartedAreRecorded) /\ [][C2_CompleteUntouched]_vars

\* A resume over a record with a complete part, whose file is on disk, and an
\* incomplete one, whose worker has received bytes.
C2_Witness ==
    /\ resumed
    /\ pc = "join"
    /\ \E k \in Started : wpos[k] > 0 /\ root[k].text # RangeText(Str(0), Str(partSize))
    /\ \E j \in Recorded("complete") : j \notin Started /\ partFile[j] # NoFile

\* C3: an interrupt() that comes while workers are transferring ends the
\* download() without a merge, with state.xml written by this download() and
\* with the part file of every worker on disk.
C3_InterruptPersists ==
    (pc = "done" /\ intr) =>
        /\ ~mergeRan
        /\ writes >= 1
        /\ \A k \in Started : partFile[k] # NoFile

\* The worker of part k has received every byte of its range.
Finished(k) ==
    k \in DOMAIN partPosition /\ partPosition[k] # 0 /\ partPosition[k] = TotalDown(k)

\* C4: the state.xml that a new download() writes when it is interrupted has
\* one entry for each of the N parts, complete for the parts that finished and
\* incomplete for the others.
C4_OneEntryPerPart ==
    (~resumed /\ nparts >= 1 /\ intr /\ writes >= 1) =>
        /\ DOMAIN stateXml = 1..nparts
        /\ \A k \in DOMAIN stateXml :
               stateXml[k].state = (IF Finished(k) THEN "complete" ELSE "incomplete")

\* The first byte of part k's planned range.
PlannedStart(k) == IF k = 1 THEN 0 ELSE (k - 1) * partSize + 1

\* C5: in the state.xml a paused download() leaves, the range of an incomplete
\* part starts at the first byte not yet in its part file and ends at
\* k * partSize; the range of a complete part (whose planned range the
\* resource has in full) starts at its planned end.
C5_ResumeRanges ==
    (pc = "done" /\ stop /\ ~mergeRan /\ writes >= 1) =>
        \A k \in DOMAIN stateXml :
            LET first == ToInt(LeadingDigits(stateXml[k].text))
                last == ToInt(TrailingDigits(stateXml[k].text))
            IN  IF stateXml[k].state = "incomplete"
                THEN /\ partFile[k] # NoFile
                     /\ first = PlannedStart(k) + Len(partFile[k])
                     /\ last = k * partSize
                ELSE k * partSize < fileSize => first = k * partSize

\* What a step leaves of the part j as it was: its worker, its file, its
\* progress and its saved state.
SamePart(j) ==
    /\ wpc'[j] = wpc[j]
    /\ wpos'[j] = wpos[j]
    /\ partFile'[j] = partFile[j]
    /\ (j \in DOMAIN partPosition') = (j \in DOMAIN partPosition)
    /\ j \in DOMAIN partPosition => partPosition'[j] = partPosition[j]
    /\ (j \in DOMAIN partState') = (j \in DOMAIN partState)
    /\ j \in DOMAIN partState => partState'[j] = partState[j]

\* The worker of part k enters the except clause of _downloadRange().
Caught(k) == wfrom[k] # "exc" /\ wfrom'[k] = "exc"

\* The worker of part k, in the except clause, records the part's state.
Reported(k) == wpc[k] = "save" /\ wfrom[k] = "exc" /\ wpc'[k] # "save"

C6_FailureIsLocal ==
    \A k \in PartIds :
        /\ (Caught(k) \/ Reported(k)) =>
               /\ \A j \in PartIds \ {k} : SamePart(j)
               /\ pc' = pc /\ err' = err /\ stop' = stop
        /\ Reported(k) => k \in DOMAIN partState' /\ partState'[k] = "incomplete"
        /\ (k \in DOMAIN partState' /\ k \notin DOMAIN partState
               /\ partState'[k] = "incomplete") => Reported(k)

\* C6: a transfer that ends in pycurl.error is caught in its own thread: the
\* part, and only that part, is saved as incomplete, the other parts and their
\* workers are left as they are, and a new download() never raises.
C6_FailureRecoveredLocally ==
    /\ [][C6_FailureIsLocal]_vars
    /\ []((attempt >= 1 /\ ~resumed) => pc # "raised")

\* A download() of two parts, never interrupted, is over: the transfer of
\* part 1 failed and part 2 completed.
C6_Witness ==
    /\ ~stop /\ ~resumed /\ attempt = 1
    /\ pc = "done" /\ err = "none"
    /\ DOMAIN partState = {1, 2}
    /\ partState[1] = "incomplete" /\ partState[2] = "complete"

\* The part files 1..n as they were when the merge began, one after the other.
RECURSIVE Concatenation(_)
Concatenation(n) ==
    IF n <= 0 THEN <<>>
    ELSE Concatenation(n - 1) \o (IF preMerge[n] = NoFile THEN <<>> ELSE preMerge[n])

\* C7: a download() of N >= 1 parts that all complete, with no stop requested,
\* leaves a merged file that is the part files 1..N one after the other and
\* that is not longer than the resource.
C7_MergedFile ==
    (pc = "done" /\ ~resumed /\ nparts >= 1 /\ ~stop /\ mergeRan
        /\ Started = 1..nparts /\ AllComplete) =>
        /\ artifact = Concatenation(nparts)
        /\ Len(artifact) <= fileSize

\* s is the beginning of t, and shorter.
IsProperPrefix(s, t) == Len(s) < Len(t) /\ s = SubSeq(t, 1, Len(s))

\* C8: the merge is atomic: the merged file never holds only a beginning of
\* what the part files hold together.
C8_MergeAtomic ==
    (mergeRan /\ nparts >= 1 /\ artifact # NoFile) =>
        ~IsProperPrefix(artifact, Concatenation(nparts))

\* C9: no part file is removed before the merge is over: while _mergeFiles()
\* runs, and after it has raised, every part file that was on disk when it
\* began is still there.
C9_PartsKeptUntilMerged ==
    (mergeRan /\ (pc = "merge" \/ pc = "raised")) =>
        \A k \in PartIds : preMerge[k] # NoFile => partFile[k] # NoFile

\* C10: with parts <= 0 nothing is downloaded: no worker is started, no part
\* file and no merged file is created, and download() does not return.
C10_NoPartsNoDownload ==
    nparts <= 0 =>
        /\ Started = {}
        /\ \A k \in PartIds : partFile[k] = NoFile
        /\ artifact = NoFile
        /\ pc # "done"

\* C11: a write of state.xml replaces this file's record only: the records of
\* other files that were in state.xml before the write are there after it.
C11_OtherRecordsKept == [][otherXml => otherXml']_vars

\* The parts state.xml on disk lists with a state.
OnDisk(state) == {k \in DOMAIN stateXml : stateXml[k].state = state}

\* C12: a reinstate() called when state.xml lists no incomplete part, with the
\* merged file on disk, starts no worker and leaves the merged file as it is.
C12_ResumeIdempotent ==
    [][(resumed /\ writes = 0 /\ OnDisk("incomplete") = {} /\ artifact # NoFile) =>
           (artifact' = artifact /\ Started' = {})]_vars

\* C13: a resumed download() reads state.xml as it is when the call begins:
\* once its loop is over (and before it writes state.xml itself) it has
\* started a worker for exactly the parts state.xml lists as incomplete, each
\* with the range state.xml holds.
C13_ResumeReadsRecord ==
    (resumed /\ writes = 0 /\ pc = "join") =>
        /\ Started = OnDisk("incomplete")
        /\ \A k \in Started : wrange[k] = stateXml[k].text

\* The parts the loop of download() has started a thread for.
Planned == {k \in DOMAIN wpc : wpc[k] # "none"}

\* C14: the ranges a new download() plans: part 1 starts at 0 and part k > 1
\* at (k - 1) * partSize + 1, so that the starts increase; part k ends at
\* k * floor(fileSize / parts); no two ranges have a byte in common.
C14_PlannedRanges ==
    (~resumed /\ attempt >= 1) =>
        /\ \A k \in Planned :
               /\ RangeFirst(k) = (IF k = 1 THEN 0 ELSE (k - 1) * partSize + 1)
               /\ RangeLast(k) = k * (fileSize \div nparts)
        /\ \A j, k \in Planned :
               j < k => RangeFirst(j) < RangeFirst(k) /\ RangeLast(j) < RangeFirst(k)

\* C15: when the loop of a new download() is over the N ranges partition
\* [0, fileSize]: part 1 starts at 0, each part starts one byte after the part
\* before it ends, and part N ends at fileSize.
C15_PlanIsPartition ==
    (~resumed /\ attempt >= 1 /\ pc = "join") =>
        /\ Planned = 1..nparts
        /\ RangeFirst(1) = 0
        /\ \A k \in 2..nparts : RangeFirst(k) = RangeLast(k - 1) + 1
        /\ RangeLast(nparts) = fileSize

\* The parts the current download() has counted in self.parts so far.
Counted ==
    IF resumed
    THEN Cardinality(Recorded("incomplete") \ todo) - (IF pc = "recount" THEN 1 ELSE 0)
    ELSE dlParts

\* The parts of the current download() with a recorded state.
Terminal == {k \in Started : k \in DOMAIN partState}

\* No thread is between the read and the write of self.parts.
CounterAtRest == pc # "recount" /\ \A k \in PartIds : wpc[k] # "save"

\* C16: the counter self.parts is decremented once for each part: whenever no
\* thread is in the middle of updating it, it is the number of parts counted
\* for the download() minus the number of parts with a recorded state, and so
\* it is zero exactly when every part counted has a recorded state.
C16_CountedOnce ==
    (attempt >= 1 /\ nparts >= 1 /\ pc # "idle" /\ CounterAtRest) =>
        /\ parts = Counted - Cardinality(Terminal)
        /\ (parts = 0) <=> (Cardinality(Terminal) = Counted)

\* C17: a download() writes state.xml at most once.
C17_OneWrite == writes <= 1

\* Every part the current download() is to start a worker for has its worker
\* started and its state recorded.
AllTerminal ==
    /\ Started = (IF resumed THEN Recorded("incomplete") ELSE 1..dlParts)
    /\ \A k \in Started : k \in DOMAIN partState

\* C18: state.xml is written only when the last part of the download() gets
\* its state: after a step that writes it, every part the download() starts a
\* worker for has been started and has a recorded state.
C18_WriteAtEnd == [][writes' > writes => AllTerminal']_vars

\* C19: when _save() is about to call _setXMLData() every part with an entry
\* in partPosition has one in partState and in lastPosition.
C19_FlushFindsEntries ==
    (parts = 0 /\ \E k \in PartIds : wpc[k] = "check") =>
        \A k \in DOMAIN partPosition :
            k \in DOMAIN partState /\ k \in DOMAIN lastPosition

\* Only the construction of a new Downloader clears the stop flag.
C20_StopKept == (stop /\ ~stop') => NewDownloader

\* In a download() called with the stop flag set, a progress callback of a
\* worker aborts its transfer: the worker does not go back to transferring.
C20_CancelledAtCallback ==
    \A k \in PartIds :
        /\ \A c \in 0..(MaxSize + 1) :
               (stopped /\ TrackProgress(k, c)) => wpc'[k] \in {"save", "check"}
        /\ (stopped /\ wpc[k] \in {"save", "check"}) => wpc'[k] # "xfer"

\* C20: the stop flag, once set by interrupt(), stays set for the life of the
\* Downloader: a download() or reinstate() called after it on the same object
\* runs with the flag set and merges nothing, and each worker it starts is
\* cancelled at its first progress callback.
C20_StopIsMonotonic ==
    /\ [][C20_StopKept]_vars
    /\ [](stopped => (stop /\ ~mergeRan /\ pc # "merge"))
    /\ [][C20_CancelledAtCallback]_vars

\* A download() called after interrupt() is over without a merge; the worker
\* of part 1 was cancelled at its first callback, with bytes of its range still
\* to come, and that of part 2 at a callback that reported its whole range.
C20_Witness ==
    /\ stopped /\ pc = "done" /\ ~mergeRan /\ artifact = NoFile
    /\ wpc[1] = "dead" /\ wpc[2] = "dead"
    /\ DOMAIN partState = {1, 2}
    /\ partState[1] = "incomplete" /\ partState[2] = "complete"
    /\ partFile[1] # NoFile /\ Len(partFile[1]) < TotalDown(1)

====
